---- MODULE Spec2Model ----
(***************************************************************************)
(* State-machine model of AudioManager (src/src/utils/audio-manager.js):   *)
(* microphone selection, capture constraints, the fetch of an audio track, *)
(* the Oculus "ended" recovery listener, the device cache and the          *)
(* post-selection housekeeping.                                            *)
(*                                                                         *)
(* One action is one run of JavaScript between two awaits: a call up to    *)
(* its first await, the continuation after getUserMedia settles, the       *)
(* continuation after enumerateDevices settles, an event listener.         *)
(* The device provider, the settings store's user and the track hardware   *)
(* are the environment.                                                    *)
(***************************************************************************)
EXTENDS Integers, Sequences, FiniteSets, TLC

(* ------------------------------ bounds --------------------------------- *)
\* tracks the provider grants in one behaviour
MaxTracks == 3
\* calls of selectMicDevice / setMediaStreamToDefault / fetchAudioTrack
MaxCalls == 2
\* events the environment raises on its own in one behaviour: a track ended
\* by an external cause, a device change, a failed enumeration
MaxEnvEvents == 2

(* --------------------------- value universe ---------------------------- *)
\* this._audioTrack = null: tracks are numbered from 1, null is no track
NullTrack == 0
Undefined == "undefined"
Null == "null"
OutboundStream == "audioSystem.outboundStream"

\* the devices the platform may report, in enumeration order
AllDevices ==
  << [deviceId |-> "mic-a",        kind |-> "audioinput",  label |-> "Generic Mic"],
     [deviceId |-> "cam-c",        kind |-> "videoinput",  label |-> "Camera"],
     [deviceId |-> "mic-b",        kind |-> "audioinput",  label |-> "Generic Mic"],
     [deviceId |-> "0123456789ab", kind |-> "audioinput",  label |-> ""],
     [deviceId |-> "mic-v",        kind |-> "audioinput",  label |-> "Vive Pro Mic"],
     [deviceId |-> "mic-h",        kind |-> "audioinput",  label |-> "HTC Vive Mic"] >>

DeviceIndex == 1..Len(AllDevices)

\* the device sets the platform moves between
Snapshots == { {1, 2, 3, 4}, {2, 3, 4}, {2, 4} }

\* the ids callers pass to selectMicDevice
SelectableIds == {"mic-a", "mic-b"}

\* values a disable flag has in the store: not set, true, false
FlagValues == {"absent", "true", "false"}

PreferenceStates ==
  [disableEchoCancellation : FlagValues,
   disableNoiseSuppression : FlagValues,
   disableAutoGainControl  : FlagValues]

VARIABLES
  isMobile,             \* module constant isMobile (line 1)
  isMobileVR,           \* AFRAME.utils.device.isMobileVR() (lines 2 and 197)
  isFirefoxReality,     \* module constant isFirefoxReality (line 3)
  isOculus,             \* /Oculus/.test(navigator.userAgent) (line 139)
  preferences,          \* this._store.state.preferences
  lastUsedMicDeviceId,  \* this._store.state.settings.lastUsedMicDeviceId
  micDevices,           \* this._micDevices
  audioTrack,           \* this._audioTrack
  mediaStream,          \* this._mediaStream
  tracks,               \* the MediaStreamTracks the provider granted
  nextTrack,            \* number of the next track the provider grants
  calls,                \* the calls of the public async methods that are in flight
  issued,               \* number of calls issued so far
  recreate,             \* per track: the run of its recreateAudioStream listener
  present,              \* the platform's current device set
  envEvents,            \* number of environment events so far
  pendingRefresh,       \* onDeviceChange runs awaiting enumerateDevices
  microphone,           \* stream last given to addStreamToOutboundAudio("microphone", .)
  last,                 \* the handler step that ran last
  effects               \* the calls that step made on its collaborators, in order

vars == << isMobile, isMobileVR, isFirefoxReality, isOculus, preferences, lastUsedMicDeviceId, micDevices,
           audioTrack, mediaStream, tracks, nextTrack, calls, issued, recreate,
           present, envEvents, pendingRefresh, microphone, last, effects >>

(* --------------------------- pure helpers ------------------------------ *)
\* a JavaScript value used as a condition
Truthy(v) == v # Undefined /\ v # Null /\ v # ""

\* d.deviceId.substr(0, 9)
Substr9(id) == IF id = "0123456789ab" THEN "012345678" ELSE id

\* mutant of MicDeviceOf: the label is cached as the platform gives it
MicDeviceOf_NoFallback(d) == [value |-> d.deviceId, label |-> d.label]

\* line 190: d => ({ value: d.deviceId, label: d.label || `Mic (${...})` })
MicDeviceOf(d) ==
  [value |-> d.deviceId,
   label |-> IF Truthy(d.label) THEN d.label ELSE "Mic (" \o Substr9(d.deviceId) \o ")"]

\* navigator.mediaDevices.enumerateDevices() on device set S
EnumerateDevices(S) ==
  LET F[i \in 0..Len(AllDevices)] ==
        IF i = 0 THEN << >>
        ELSE IF i \in S THEN Append(F[i - 1], AllDevices[i]) ELSE F[i - 1]
  IN F[Len(AllDevices)]

\* mutant of MicDevicesOf: every enumerated device is cached
MicDevicesOf_NoFilter(mediaDevices) ==
  [i \in 1..Len(mediaDevices) |-> MicDeviceOf(mediaDevices[i])]

\* lines 188-190: filter to audioinput, map to { value, label }
MicDevicesOf(mediaDevices) ==
  LET inputs == SelectSeq(mediaDevices, LAMBDA d : d.kind = "audioinput")
  IN [i \in 1..Len(inputs) |-> MicDeviceOf(inputs[i])]

\* line 205: (audioTrack && audioTrack.label) || ""
micLabelForAudioTrack(t) ==
  IF t # NullTrack /\ Truthy(tracks[t].label) THEN tracks[t].label ELSE ""

\* line 209: this.micDevices.filter(d => d.label === label).map(d => d.value)[0]
micDeviceIdForMicLabel(devices, label) ==
  LET hits == SelectSeq(devices, LAMBDA d : d.label = label)
  IN IF Len(hits) = 0 THEN Undefined ELSE hits[1].value

\* line 213
micLabelForDeviceId(devices, deviceId) ==
  LET hits == SelectSeq(devices, LAMBDA d : d.value = deviceId)
  IN IF Len(hits) = 0 THEN Undefined ELSE hits[1].label

\* lines 59-65: the getters selectedMicLabel and selectedMicDeviceId
selectedMicLabel == micLabelForAudioTrack(audioTrack)
selectedMicDeviceId == micDeviceIdForMicLabel(micDevices, selectedMicLabel)

(* ------------------------- constraint builder -------------------------- *)
\* line 83
ExactDevice(deviceId) == [mode |-> "exact", id |-> deviceId]
\* line 95
IdealDevice(deviceId) == [mode |-> "ideal", id |-> deviceId]
\* line 97 and the default parameter of line 105: { audio: {} }
NoDeviceClause == [mode |-> "none", id |-> Undefined]

\* mutant of BaseToggle: the polarity of lines 116-120 on every platform
BaseToggle_Inverted(flag) == IF flag = "false" THEN TRUE ELSE FALSE

\* lines 110-112: flag === true ? false : true
BaseToggle(flag) == IF flag = "true" THEN FALSE ELSE TRUE
\* lines 116-120: flag === false ? true : false
FirefoxRealityToggle(flag) == IF flag = "false" THEN TRUE ELSE FALSE
\* lines 110-120: the later assignment wins under isFirefoxReality
EffectiveToggle(flag, fxr) ==
  IF fxr THEN FirefoxRealityToggle(flag) ELSE BaseToggle(flag)

\* a JavaScript boolean as the store keeps it
FlagOf(b) == IF b THEN "true" ELSE "false"

\* lines 110-120: the toggles are assigned into the caller's constraints.audio
BuildConstraints(device, prefs, fxr) ==
  [device           |-> device,
   echoCancellation |-> EffectiveToggle(prefs.disableEchoCancellation, fxr),
   noiseSuppression |-> EffectiveToggle(prefs.disableNoiseSuppression, fxr),
   autoGainControl  |-> EffectiveToggle(prefs.disableAutoGainControl, fxr)]

\* mutant of RewritePreferences: the negation of lines 124-126 is left out
RewritePreferences_NotNegated(prefs, c, fxr) ==
  IF fxr
  THEN [prefs EXCEPT !.disableEchoCancellation = FlagOf(c.echoCancellation),
                     !.disableNoiseSuppression = FlagOf(c.noiseSuppression),
                     !.disableAutoGainControl  = FlagOf(c.autoGainControl)]
  ELSE prefs

\* lines 122-128: store.update({ preferences: { disableX: !constraints.audio.X } })
RewritePreferences(prefs, c, fxr) ==
  IF fxr
  THEN [prefs EXCEPT !.disableEchoCancellation = FlagOf(~c.echoCancellation),
                     !.disableNoiseSuppression = FlagOf(~c.noiseSuppression),
                     !.disableAutoGainControl  = FlagOf(~c.autoGainControl)]
  ELSE prefs

NoConstraints == BuildConstraints(NoDeviceClause,
                   [disableEchoCancellation |-> "absent",
                    disableNoiseSuppression |-> "absent",
                    disableAutoGainControl  |-> "absent"], FALSE)

(* ------------------------------ tracks --------------------------------- *)
Tracks == 1..MaxTracks

\* constraints: what the provider granted the track for; armed and closure: the
\* once-listener for "ended" on the track and the constraints it closes over
NoTrackRecord ==
  [state |-> "none", label |-> "", constraints |-> NoConstraints,
   armed |-> FALSE, closure |-> NoConstraints]

\* mutant of ClosureConstraints: the listener re-requests with { audio: {} }
ClosureConstraints_Default(c) == NoConstraints

\* lines 142, 147: recreateAudioStream closes over fetchAudioTrack's constraints
ClosureConstraints(c) == c

\* a track the provider grants for constraints c from device d; hook: whether
\* an "ended" listener is added to it (lines 139, 154, 157), closing over cl
GrantedTrack(c, d, hook, cl) ==
  [state |-> "live", label |-> AllDevices[d].label, constraints |-> c,
   armed |-> hook, closure |-> IF hook THEN ClosureConstraints(cl) ELSE NoConstraints]

\* mutant of AttachedMicrophone: the new stream is not attached
AttachedMicrophone_Kept(attached, n) == attached

\* lines 134, 150: audioSystem.addStreamToOutboundAudio("microphone", newStream)
\* puts the stream of new track n in the place of the one attached so far
AttachedMicrophone(attached, n) == n

\* mutant of StopTrack: the previous track is not stopped
StopTrack_NoStop(ts, t) == ts

\* lines 106-108: if (this.audioTrack) this.audioTrack.stop()
\* stop() ends a live track without firing "ended"; on an ended track it does nothing
StopTrack(ts, t) ==
  IF t = NullTrack THEN ts
  ELSE [ts EXCEPT ![t].state = IF @ = "live" THEN "stopped" ELSE @]

StopEffects(t) == IF t = NullTrack THEN << >> ELSE << "audioTrack.stop" >>

\* getUserMedia(c) can resolve with a track of device d
CanGrant(c, d) ==
  /\ d \in present
  /\ AllDevices[d].kind = "audioinput"
  /\ c.device.mode = "exact" => AllDevices[d].deviceId = c.device.id

(* ------------------------------- calls --------------------------------- *)
Calls == 1..MaxCalls

IdleCall ==
  [kind |-> "none", pc |-> "idle", constraints |-> NoConstraints, result |-> FALSE]

\* the record of a handler step: the operation, the call and the track it is
\* about, and for a step of a call its kind, the success flag of its fetch and
\* what the call returned to its caller ("none" while it has not returned)
Step(op, p, t, kind, result, returned) ==
  [op |-> op, call |-> p, track |-> t, kind |-> kind, arg |-> Undefined,
   result |-> result, returned |-> returned]

EnvStep(op, t) == Step(op, 0, t, "none", FALSE, "none")

\* a call takes the lowest free slot
IsNextCall(p) ==
  /\ issued < MaxCalls
  /\ calls[p].pc = "idle"
  /\ \A q \in Calls : q < p => calls[q].pc # "idle"

\* lines 110-129 as the request sees them
RequestConstraints(device) == BuildConstraints(device, preferences, isFirefoxReality)

\* lines 83, 95, 97, 105: every call makes a constraints object of its own,
\* which fetchAudioTrack fills in and the recovery listener closes over;
\* ref tells the objects of different calls apart
ConstraintsObject(c, n) ==
  [device |-> c.device, echoCancellation |-> c.echoCancellation,
   noiseSuppression |-> c.noiseSuppression, autoGainControl |-> c.autoGainControl,
   ref |-> n]

\* lines 105-132: fetchAudioTrack up to its await
FetchStart(p, kind, arg, device) ==
  LET c == ConstraintsObject(RequestConstraints(device), issued + 1) IN
  /\ tracks' = StopTrack(tracks, audioTrack)
  /\ preferences' = RewritePreferences(preferences, c, isFirefoxReality)
  /\ calls' = [calls EXCEPT ![p] = [kind |-> kind, pc |-> "getUserMedia",
                                    constraints |-> c, result |-> FALSE]]
  /\ issued' = issued + 1
  /\ effects' = StopEffects(audioTrack)
                \o (IF isFirefoxReality THEN << "store.update:preferences" >> ELSE << >>)
                \o << "getUserMedia" >>
  /\ last' = [Step(kind, p, audioTrack, kind, FALSE, "none") EXCEPT !.arg = arg]
  /\ UNCHANGED << isMobile, isMobileVR, isFirefoxReality, isOculus, lastUsedMicDeviceId, micDevices,
                  audioTrack, mediaStream, nextTrack, recreate, present,
                  envEvents, pendingRefresh, microphone >>

\* lines 82-84
selectMicDevice(p, deviceId) ==
  /\ IsNextCall(p)
  /\ FetchStart(p, "selectMicDevice", deviceId, ExactDevice(deviceId))

\* mutant of DefaultDevice: the last-used id is requested as a hard constraint
DefaultDevice_Exact(lastUsed) ==
  IF Truthy(lastUsed) THEN ExactDevice(lastUsed) ELSE NoDeviceClause

\* lines 94-98
DefaultDevice(lastUsed) ==
  IF Truthy(lastUsed) THEN IdealDevice(lastUsed) ELSE NoDeviceClause

\* lines 90-98
setMediaStreamToDefault(p) ==
  /\ IsNextCall(p)
  /\ FetchStart(p, "setMediaStreamToDefault", Undefined,
                DefaultDevice(lastUsedMicDeviceId))

\* line 105, called directly with the default argument
fetchAudioTrack(p) ==
  /\ IsNextCall(p)
  /\ FetchStart(p, "fetchAudioTrack", Undefined, NoDeviceClause)

\* mutant of ReturnValue: the call reports success whatever the fetch did
ReturnValue_AlwaysTrue(result) == TRUE

\* lines 85-87 and 100-102: the value a call resolves with, from its fetch's flag
ReturnValue(result) == result

\* after fetchAudioTrack returned: a direct call is over; selectMicDevice and
\* setMediaStreamToDefault go on to setupNewMediaStream (lines 85, 100), whose
\* first step is fetchMicDevices' enumerateDevices (lines 170, 187)
AfterFetch(c, result) ==
  IF c.kind = "fetchAudioTrack" THEN IdleCall
  ELSE [c EXCEPT !.pc = "enumerateDevices", !.result = result]

AfterFetchReturned(c, result) ==
  IF c.kind = "fetchAudioTrack" THEN FlagOf(result) ELSE "none"

AfterFetchEffects(c) ==
  IF c.kind = "fetchAudioTrack" THEN << >> ELSE << "enumerateDevices" >>

\* lines 132-160: getUserMedia resolved
getUserMediaResolved(p, d) ==
  LET c == calls[p].constraints
      n == nextTrack
  IN
  /\ calls[p].pc = "getUserMedia"
  /\ nextTrack <= MaxTracks
  /\ CanGrant(c, d)
  /\ tracks' = [tracks EXCEPT ![n] = GrantedTrack(c, d, isOculus, c)]
  /\ nextTrack' = n + 1
  /\ microphone' = AttachedMicrophone(microphone, n)
  /\ mediaStream' = OutboundStream
  /\ audioTrack' = n
  /\ calls' = [calls EXCEPT ![p] = AfterFetch(calls[p], TRUE)]
  /\ effects' = << "addStreamToOutboundAudio:microphone" >>
                \o (IF isOculus THEN << "addEventListener:ended" >> ELSE << >>)
                \o AfterFetchEffects(calls[p])
  /\ last' = Step("getUserMediaResolved", p, n, calls[p].kind, TRUE,
                  AfterFetchReturned(calls[p], TRUE))
  /\ UNCHANGED << isMobile, isMobileVR, isFirefoxReality, isOculus, preferences, lastUsedMicDeviceId,
                  micDevices, issued, recreate, present, envEvents, pendingRefresh >>

\* mutant of CatchBlock: the catch block forgets to clear audioTrack
CatchBlock_KeepsTrack(t) == [audioTrack |-> t, thrown |-> FALSE]

\* lines 161-166: the catch block, entered with audioTrack t: what it leaves
\* in audioTrack and whether the error goes on to the caller
CatchBlock(t) == [audioTrack |-> NullTrack, thrown |-> FALSE]

\* lines 161-166: getUserMedia rejected
getUserMediaRejected(p) ==
  LET caught == CatchBlock(audioTrack) IN
  /\ calls[p].pc = "getUserMedia"
  /\ audioTrack' = caught.audioTrack
  /\ calls' = [calls EXCEPT ![p] = IF caught.thrown THEN IdleCall
                                   ELSE AfterFetch(calls[p], FALSE)]
  /\ effects' = IF caught.thrown THEN << >> ELSE AfterFetchEffects(calls[p])
  /\ last' = Step("getUserMediaRejected", p, audioTrack, calls[p].kind, FALSE,
                  IF caught.thrown THEN "threw"
                  ELSE AfterFetchReturned(calls[p], FALSE))
  /\ UNCHANGED << isMobile, isMobileVR, isFirefoxReality, isOculus, preferences, lastUsedMicDeviceId,
                  micDevices, mediaStream, tracks, nextTrack, issued, recreate,
                  present, envEvents, pendingRefresh, microphone >>

(* ------------------- post-selection housekeeping ----------------------- *)
\* mutant of PersistedMicDeviceId: the id is stored without the test of line 175
PersistedMicDeviceId_Unguarded(devices, t, stored) ==
  IF t # NullTrack
  THEN micDeviceIdForMicLabel(devices, micLabelForAudioTrack(t))
  ELSE stored

\* mutant of PersistedMicDeviceId: the first cached device is stored, found or not
PersistedMicDeviceId_FirstDevice(devices, t, stored) ==
  IF t # NullTrack /\ Len(devices) > 0 THEN devices[1].value ELSE stored

\* lines 173-179: the id written to settings.lastUsedMicDeviceId, given the
\* refreshed cache, the active track and the id stored so far
PersistedMicDeviceId(devices, t, stored) ==
  LET micDeviceId == micDeviceIdForMicLabel(devices, micLabelForAudioTrack(t))
  IN IF t # NullTrack /\ Truthy(micDeviceId) THEN micDeviceId ELSE stored

\* mutant of SetupEffects: the event is emitted before the id is stored
SetupEffects_EmitFirst(devices, t) ==
  LET micDeviceId == micDeviceIdForMicLabel(devices, micLabelForAudioTrack(t))
  IN IF t # NullTrack
     THEN << "emit:local-media-stream-created" >>
          \o (IF Truthy(micDeviceId)
              THEN << "store.update:lastUsedMicDeviceId" >> ELSE << >>)
     ELSE << >>

\* lines 173-182: what setupNewMediaStream does after the refresh, in order
SetupEffects(devices, t) ==
  LET micDeviceId == micDeviceIdForMicLabel(devices, micLabelForAudioTrack(t))
  IN IF t # NullTrack
     THEN (IF Truthy(micDeviceId)
           THEN << "store.update:lastUsedMicDeviceId" >> ELSE << >>)
          \o << "emit:local-media-stream-created" >>
     ELSE << >>

\* lines 170-183, then 87 or 102: enumerateDevices resolved inside a call
enumerateDevicesResolved(p) ==
  LET devices == MicDevicesOf(EnumerateDevices(present)) IN
  /\ calls[p].pc = "enumerateDevices"
  /\ micDevices' = devices
  /\ lastUsedMicDeviceId' = PersistedMicDeviceId(devices, audioTrack, lastUsedMicDeviceId)
  /\ calls' = [calls EXCEPT ![p] = IdleCall]
  /\ effects' = << "micDevices" >> \o SetupEffects(devices, audioTrack)
  /\ last' = Step("enumerateDevicesResolved", p, audioTrack, calls[p].kind,
                  calls[p].result, FlagOf(ReturnValue(calls[p].result)))
  /\ UNCHANGED << isMobile, isMobileVR, isFirefoxReality, isOculus, preferences, audioTrack, mediaStream,
                  tracks, nextTrack, issued, recreate, present, envEvents,
                  pendingRefresh, microphone >>

\* lines 186-193: the promise of fetchMicDevices has no reject path: when
\* enumerateDevices rejects, the inner rejection is unhandled and the outer
\* promise never settles, so the awaiting call never resumes
enumerateDevicesRejected(p) ==
  /\ calls[p].pc = "enumerateDevices"
  /\ envEvents < MaxEnvEvents
  /\ envEvents' = envEvents + 1
  /\ calls' = [calls EXCEPT ![p].pc = "hung"]
  /\ effects' = << >>
  /\ last' = Step("enumerateDevicesRejected", p, audioTrack, calls[p].kind,
                  calls[p].result, "none")
  /\ UNCHANGED << isMobile, isMobileVR, isFirefoxReality, isOculus, preferences, lastUsedMicDeviceId,
                  micDevices, audioTrack, mediaStream, tracks, nextTrack, issued,
                  recreate, present, pendingRefresh, microphone >>

(* --------------------- the "ended" recovery listener ------------------- *)
NoRecreate == [pc |-> "none", constraints |-> NoConstraints]

\* an external cause ends live track t; when its once-listener is armed
\* (lines 154, 157) recreateAudioStream starts: lines 142-147
TrackEnded(t) ==
  /\ tracks[t].state = "live"
  /\ envEvents < MaxEnvEvents
  /\ envEvents' = envEvents + 1
  /\ tracks' = [tracks EXCEPT ![t].state = "ended", ![t].armed = FALSE]
  /\ recreate' = [recreate EXCEPT ![t] =
                    IF tracks[t].armed
                    THEN [pc |-> "pending", constraints |-> tracks[t].closure]
                    ELSE @]
  /\ effects' = IF tracks[t].armed THEN << "getUserMedia" >> ELSE << >>
  /\ last' = EnvStep("ended", t)
  /\ UNCHANGED << isMobile, isMobileVR, isFirefoxReality, isOculus, preferences, lastUsedMicDeviceId,
                  micDevices, audioTrack, mediaStream, nextTrack, calls, issued,
                  present, pendingRefresh, microphone >>

\* lines 147-154: the listener's getUserMedia resolved
recreateAudioStreamResolved(t, d) ==
  LET c == recreate[t].constraints
      n == nextTrack
  IN
  /\ recreate[t].pc = "pending"
  /\ nextTrack <= MaxTracks
  /\ CanGrant(c, d)
  /\ tracks' = [tracks EXCEPT ![n] = GrantedTrack(c, d, TRUE, c)]
  /\ nextTrack' = n + 1
  /\ audioTrack' = n
  /\ microphone' = AttachedMicrophone(microphone, n)
  /\ recreate' = [recreate EXCEPT ![t] = NoRecreate]
  /\ effects' = << "addStreamToOutboundAudio:microphone",
                   "emit:local-media-stream-created", "addEventListener:ended" >>
  /\ last' = EnvStep("recreateAudioStreamResolved", t)
  /\ UNCHANGED << isMobile, isMobileVR, isFirefoxReality, isOculus, preferences, lastUsedMicDeviceId,
                  micDevices, mediaStream, calls, issued, present, envEvents,
                  pendingRefresh >>

\* lines 142-155 have no try/catch and the event target ignores the promise
\* the async listener returns: its rejection is handled by nobody
UncaughtInListener == "unhandled"

\* line 147 throws inside the async listener: nothing awaits or catches it
recreateAudioStreamRejected(t) ==
  /\ recreate[t].pc = "pending"
  /\ recreate' = [recreate EXCEPT ![t] = NoRecreate]
  /\ effects' = << >>
  /\ last' = [EnvStep("recreateAudioStreamRejected", t)
                EXCEPT !.returned = UncaughtInListener]
  /\ UNCHANGED << isMobile, isMobileVR, isFirefoxReality, isOculus, preferences, lastUsedMicDeviceId,
                  micDevices, audioTrack, mediaStream, tracks, nextTrack, calls,
                  issued, present, envEvents, pendingRefresh, microphone >>

(* --------------------------- device changes ---------------------------- *)
\* the platform's device set becomes S and fires "devicechange":
\* lines 76-77 and 186-187, onDeviceChange up to enumerateDevices
onDeviceChange(S) ==
  /\ envEvents < MaxEnvEvents
  /\ S # present
  /\ present' = S
  /\ envEvents' = envEvents + 1
  /\ pendingRefresh' = pendingRefresh + 1
  /\ effects' = << "enumerateDevices" >>
  /\ last' = EnvStep("onDeviceChange", audioTrack)
  /\ UNCHANGED << isMobile, isMobileVR, isFirefoxReality, isOculus, preferences, lastUsedMicDeviceId,
                  micDevices, audioTrack, mediaStream, tracks, nextTrack, calls,
                  issued, recreate, microphone >>

\* lines 77-79 and 187-191: enumerateDevices resolved for onDeviceChange
fetchMicDevicesResolved ==
  /\ pendingRefresh > 0
  /\ pendingRefresh' = pendingRefresh - 1
  /\ micDevices' = MicDevicesOf(EnumerateDevices(present))
  /\ effects' = << "micDevices", "emit:devicechange" >>
  /\ last' = EnvStep("fetchMicDevicesResolved", audioTrack)
  /\ UNCHANGED << isMobile, isMobileVR, isFirefoxReality, isOculus, preferences, lastUsedMicDeviceId,
                  audioTrack, mediaStream, tracks, nextTrack, calls, issued,
                  recreate, present, envEvents, microphone >>

\* enumerateDevices rejected for onDeviceChange: unhandled, nothing is emitted
fetchMicDevicesRejected ==
  /\ pendingRefresh > 0
  /\ envEvents < MaxEnvEvents
  /\ envEvents' = envEvents + 1
  /\ pendingRefresh' = pendingRefresh - 1
  /\ effects' = << >>
  /\ last' = EnvStep("fetchMicDevicesRejected", audioTrack)
  /\ UNCHANGED << isMobile, isMobileVR, isFirefoxReality, isOculus, preferences, lastUsedMicDeviceId,
                  micDevices, audioTrack, mediaStream, tracks, nextTrack, calls,
                  issued, recreate, present, microphone >>

(* ----------------------------- HMD advisory ---------------------------- *)
\* the characters of the labels that tracks and cached devices carry
LabelChars(label) ==
  CASE label = "Generic Mic" ->
         << "G", "e", "n", "e", "r", "i", "c", " ", "M", "i", "c" >>
    [] label = "Vive Pro Mic" ->
         << "V", "i", "v", "e", " ", "P", "r", "o", " ", "M", "i", "c" >>
    [] label = "HTC Vive Mic" ->
         << "H", "T", "C", " ", "V", "i", "v", "e", " ", "M", "i", "c" >>
    [] label = "Mic (012345678)" ->
         << "M", "i", "c", " ", "(", "0", "1", "2", "3", "4", "5", "6", "7", "8", ")" >>
    [] OTHER -> << >>

\* \W: a character that is not a letter, a digit or "_"
IsNonWordChar(c) == c \in {" ", "(", ")"}

\* flag i: the comparison ignores case
LowerCase(c) ==
  CASE c = "V" -> "v" [] c = "R" -> "r" [] c = "I" -> "i" [] c = "F" -> "f"
    [] c = "T" -> "t" [] c = "E" -> "e" [] OTHER -> c

\* line 13: the words of /\Wvive\W/i and /\Wrift\W/i
HMD_MIC_REGEXES == << << "v", "i", "v", "e" >>, << "r", "i", "f", "t" >> >>

\* label.match(/\W<word>\W/i): the word with a non-word character on
\* both of its sides, somewhere in the label
MatchesRegex(label, word) ==
  LET chars == LabelChars(label)
  IN \E i \in 1..Len(chars) :
       /\ i + Len(word) + 1 <= Len(chars)
       /\ IsNonWordChar(chars[i])
       /\ \A k \in 1..Len(word) : LowerCase(chars[i + k]) = word[k]
       /\ IsNonWordChar(chars[i + Len(word) + 1])

\* HMD_MIC_REGEXES.find(r => label.match(r)) finds a pattern
MatchesHmdMic(label) ==
  \E r \in DOMAIN HMD_MIC_REGEXES : MatchesRegex(label, HMD_MIC_REGEXES[r])

\* this.state of the AudioManager: no line of the class assigns it
ManagerState == Undefined

\* lines 216-218, on the device list of this.state
hasHmdMicrophone(devices) ==
  \E i \in DOMAIN devices : MatchesHmdMic(devices[i].label)

\* lines 196-202: the value the call settles with; reading a property of
\* an undefined this.state is a TypeError, which rejects the async call
HmdMicWarning(state) ==
  IF isMobile \/ isMobileVR THEN "false"
  ELSE IF state = Undefined THEN "threw"
  ELSE IF ~state.enterInVR THEN "false"
  ELSE IF ~hasHmdMicrophone(state.micDevices) THEN "false"
  ELSE IF MatchesHmdMic(selectedMicLabel) THEN "false" ELSE "true"

\* lines 196-202: a call of shouldShowHmdMicWarning
shouldShowHmdMicWarning ==
  /\ effects' = << >>
  /\ last' = [EnvStep("shouldShowHmdMicWarning", audioTrack)
                EXCEPT !.returned = HmdMicWarning(ManagerState)]
  /\ UNCHANGED << isMobile, isMobileVR, isFirefoxReality, isOculus, preferences,
                  lastUsedMicDeviceId, micDevices, audioTrack, mediaStream, tracks,
                  nextTrack, calls, issued, recreate, present, envEvents,
                  pendingRefresh, microphone >>

(* --------------------------- specifications ---------------------------- *)
\* the preference state the interleaving specifications start from
StartPreferences ==
  { [disableEchoCancellation |-> "true", disableNoiseSuppression |-> "false",
     disableAutoGainControl |-> "absent"] }

\* the user agents: Firefox Reality, Oculus Browser, any other desktop browser
\* (line 3: isFirefoxReality implies isMobileVR)
Platforms ==
  { [isMobile |-> FALSE, isMobileVR |-> TRUE,  isFirefoxReality |-> TRUE,  isOculus |-> FALSE],
    [isMobile |-> FALSE, isMobileVR |-> TRUE,  isFirefoxReality |-> FALSE, isOculus |-> TRUE],
    [isMobile |-> FALSE, isMobileVR |-> FALSE, isFirefoxReality |-> FALSE, isOculus |-> FALSE] }

\* lines 16-23: the constructor, on a platform, a store and a device set
InitOn(platforms, prefStates, deviceSets) ==
  /\ \E ua \in platforms : /\ isMobile = ua.isMobile
                            /\ isMobileVR = ua.isMobileVR
                            /\ isFirefoxReality = ua.isFirefoxReality
                            /\ isOculus = ua.isOculus
  /\ preferences \in prefStates
  /\ lastUsedMicDeviceId \in {Undefined, "mic-b"}
  /\ micDevices = << >>
  /\ audioTrack = NullTrack
  /\ mediaStream = Null
  /\ tracks = [t \in Tracks |-> NoTrackRecord]
  /\ nextTrack = 1
  /\ calls = [p \in Calls |-> IdleCall]
  /\ issued = 0
  /\ recreate = [t \in Tracks |-> NoRecreate]
  /\ present \in deviceSets
  /\ envEvents = 0
  /\ pendingRefresh = 0
  /\ microphone = NullTrack
  /\ last = EnvStep("constructor", NullTrack)
  /\ effects = << >>

\* the constructor on the three user agents, all four generic devices present
InitWith(prefStates) == InitOn(Platforms, prefStates, {{1, 2, 3, 4}})

Init == InitWith(StartPreferences)

\* the steps that are not the issue of a call
Progress ==
  \/ \E p \in Calls, d \in DeviceIndex : getUserMediaResolved(p, d)
  \/ \E p \in Calls : getUserMediaRejected(p)
  \/ \E p \in Calls : enumerateDevicesResolved(p)
  \/ \E p \in Calls : enumerateDevicesRejected(p)
  \/ \E t \in Tracks : TrackEnded(t)
  \/ \E t \in Tracks, d \in DeviceIndex : recreateAudioStreamResolved(t, d)
  \/ \E t \in Tracks : recreateAudioStreamRejected(t)
  \/ \E S \in Snapshots : onDeviceChange(S)
  \/ fetchMicDevicesResolved
  \/ fetchMicDevicesRejected

\* a caller issues a call
Issue ==
  \/ \E p \in Calls, id \in SelectableIds : selectMicDevice(p, id)
  \/ \E p \in Calls : setMediaStreamToDefault(p)
  \/ \E p \in Calls : fetchAudioTrack(p)

\* calls may be issued while earlier ones are in flight
Next == Issue \/ Progress

Spec == Init /\ [][Next]_vars

\* no call and no recovery request is in flight
Quiescent ==
  /\ \A p \in Calls : calls[p].pc = "idle"
  /\ \A t \in Tracks : recreate[t].pc # "pending"

\* callers issue a call only when the fetch machine is at rest
NextSeq == (Quiescent /\ Issue) \/ Progress

SpecSeq == Init /\ [][NextSeq]_vars

\* the constraint builder on every preference state: calls one after the
\* other, a provider that answers, no other event
InitBuild == InitWith(PreferenceStates)

NextBuild ==
  \/ Quiescent /\ Issue
  \/ \E p \in Calls, d \in DeviceIndex : getUserMediaResolved(p, d)
  \/ \E p \in Calls : getUserMediaRejected(p)
  \/ \E p \in Calls : enumerateDevicesResolved(p)

SpecBuild == InitBuild /\ [][NextBuild]_vars

\* the HMD advisory: the three user agents and a phone, device sets with
\* and without a headset microphone, calls one after the other
HmdPlatforms ==
  Platforms \cup
    { [isMobile |-> TRUE, isMobileVR |-> FALSE, isFirefoxReality |-> FALSE, isOculus |-> FALSE] }

HmdDeviceSets == { {1, 5}, {1, 6}, {1, 2, 3, 4} }

InitHmd == InitOn(HmdPlatforms, StartPreferences, HmdDeviceSets)

NextHmd ==
  \/ NextBuild
  \/ shouldShowHmdMicWarning

SpecHmd == InitHmd /\ [][NextHmd]_vars

\* Oculus Browser with a provider that answers: every pending getUserMedia
\* and enumerateDevices request settles, callers are free to stay away
OculusPlatform == {ua \in Platforms : ua.isOculus}

InitLive == InitOn(OculusPlatform, StartPreferences, {{1, 2, 3, 4}})

ProviderAnswers ==
  \/ \E p \in Calls, d \in DeviceIndex : getUserMediaResolved(p, d)
  \/ \E p \in Calls : getUserMediaRejected(p)
  \/ \E p \in Calls : enumerateDevicesResolved(p)
  \/ \E p \in Calls : enumerateDevicesRejected(p)
  \/ \E t \in Tracks, d \in DeviceIndex : recreateAudioStreamResolved(t, d)
  \/ \E t \in Tracks : recreateAudioStreamRejected(t)
  \/ fetchMicDevicesResolved
  \/ fetchMicDevicesRejected

SpecLive == InitLive /\ [][NextSeq]_vars /\ WF_vars(ProviderAnswers)

\* Oculus Browser, a call issued only when no call is in flight but also
\* while a recovery listener awaits the provider
NoCallInFlight == \A p \in Calls : calls[p].pc = "idle"

NextRace == (NoCallInFlight /\ Issue) \/ Progress

SpecRace == InitLive /\ [][NextRace]_vars

(* ------------------------------ properties ----------------------------- *)
Count(seq, x) == Cardinality({i \in DOMAIN seq : seq[i] = x})

ComesBefore(seq, x, y) ==
  \E i, j \in DOMAIN seq : i < j /\ seq[i] = x /\ seq[j] = y

CallKinds == {"selectMicDevice", "setMediaStreamToDefault", "fetchAudioTrack"}

\* the step that ran last issued a call
IssuedCall == last.op \in CallKinds

LiveTracks == {t \in Tracks : tracks[t].state = "live"}

\* C1: outboundStream (mediaStream) is non-empty exactly when activeTrack
\* (audioTrack) is non-empty, in every state between two handler steps.
C1_StreamIffTrack == (mediaStream # Null) <=> (audioTrack # NullTrack)

C3_RejectionCaught ==
  /\ last.returned # "threw"
  /\ last.op = "getUserMediaRejected" =>
       /\ audioTrack = NullTrack
       /\ last.result = FALSE
       /\ IF last.kind = "fetchAudioTrack"
          THEN last.returned = "false"
          ELSE /\ calls[last.call].pc = "enumerateDevices"
               /\ calls[last.call].result = FALSE

\* C3 witness: a selectMicDevice call was rejected while a track was held
C3_Witness ==
  /\ last.op = "getUserMediaRejected"
  /\ last.kind = "selectMicDevice"
  /\ last.track # NullTrack

\* C4: on the Oculus platform an external end of the active track starts
\* exactly one re-request with the constraints the track was fetched with;
\* when it is granted the new track is the active track, its stream is
\* attached under "microphone", local-media-stream-created is emitted once and
\* the listener is armed on the new track, so that the end of that track
\* starts a recovery again.
C4_RecoveryPerTrack ==
  isOculus =>
    /\ \A t \in Tracks : tracks[t].state = "live" => tracks[t].armed
    /\ \A t \in Tracks : tracks[t].state = "ended" => ~tracks[t].armed
    /\ (last.op = "ended" /\ last.track = audioTrack) =>
         /\ recreate[last.track].pc = "pending"
         /\ recreate[last.track].constraints = tracks[last.track].constraints
         /\ effects = << "getUserMedia" >>
    /\ last.op = "recreateAudioStreamResolved" =>
         LET n == nextTrack - 1 IN
         /\ audioTrack = n
         /\ tracks[n].state = "live"
         /\ tracks[n].constraints = tracks[last.track].constraints
         /\ tracks[n].armed
         /\ tracks[n].closure = tracks[last.track].constraints
         /\ microphone = n
         /\ Count(effects, "addStreamToOutboundAudio:microphone") = 1
         /\ Count(effects, "emit:local-media-stream-created") = 1
         /\ recreate[last.track].pc = "none"

\* C4 witness: after a single call, the track that a recovery had granted
\* ended in its turn and its recovery is under way
C4_Witness ==
  /\ isOculus
  /\ issued = 1
  /\ last.op = "ended"
  /\ last.track = 2
  /\ audioTrack = 2
  /\ tracks[1].state = "ended"
  /\ recreate[2].pc = "pending"

\* C5: selectMicDevice(deviceId) requests exactly that device, runs the
\* housekeeping (starting with the device refresh) after the fetch whether it
\* succeeded or failed, and returns the success flag of the fetch.
C5_SelectDevice ==
  /\ last.op = "selectMicDevice" =>
       /\ calls[last.call].pc = "getUserMedia"
       /\ calls[last.call].constraints.device = [mode |-> "exact", id |-> last.arg]
  /\ (last.kind = "selectMicDevice"
        /\ last.op \in {"getUserMediaResolved", "getUserMediaRejected"}) =>
       /\ last.returned = "none"
       /\ calls[last.call].pc = "enumerateDevices"
       /\ calls[last.call].result = last.result
       /\ effects # << >> /\ effects[Len(effects)] = "enumerateDevices"
  /\ (last.kind = "selectMicDevice" /\ last.returned # "none") =>
       /\ last.op = "enumerateDevicesResolved"
       /\ effects[1] = "micDevices"
       /\ last.returned = (IF last.result THEN "true" ELSE "false")

\* C5 witness: a selectMicDevice whose fetch failed returned false after the refresh
C5_Witness ==
  /\ last.kind = "selectMicDevice"
  /\ last.op = "enumerateDevicesResolved"
  /\ last.returned = "false"
  /\ audioTrack = NullTrack

\* C6: setMediaStreamToDefault sends one capture request, with device clause
\* {ideal: X} when the store holds last-used id X and with no device clause
\* when it holds none, the preference toggles merged in; the housekeeping
\* runs afterwards, a failed fetch raises nothing, and hasAudio is the
\* success flag of the fetch.
C6_DefaultSession ==
  /\ last.op = "setMediaStreamToDefault" =>
       LET c == calls[last.call].constraints IN
       /\ c.device = (IF lastUsedMicDeviceId = Undefined
                      THEN [mode |-> "none", id |-> Undefined]
                      ELSE [mode |-> "ideal", id |-> lastUsedMicDeviceId])
       /\ c.echoCancellation =
            (IF isFirefoxReality THEN preferences.disableEchoCancellation = "false"
             ELSE preferences.disableEchoCancellation # "true")
       /\ c.noiseSuppression =
            (IF isFirefoxReality THEN preferences.disableNoiseSuppression = "false"
             ELSE preferences.disableNoiseSuppression # "true")
       /\ c.autoGainControl =
            (IF isFirefoxReality THEN preferences.disableAutoGainControl = "false"
             ELSE preferences.disableAutoGainControl # "true")
       /\ Count(effects, "getUserMedia") = 1
  /\ (last.kind = "setMediaStreamToDefault" /\ last.op # "setMediaStreamToDefault") =>
       Count(effects, "getUserMedia") = 0
  /\ (last.kind = "setMediaStreamToDefault"
        /\ last.op \in {"getUserMediaResolved", "getUserMediaRejected"}) =>
       /\ last.returned = "none"
       /\ calls[last.call].pc = "enumerateDevices"
  /\ (last.kind = "setMediaStreamToDefault" /\ last.returned # "none") =>
       /\ last.op = "enumerateDevicesResolved"
       /\ last.returned = (IF last.result THEN "true" ELSE "false")

\* C6 witness: the default session asks for the id an earlier housekeeping stored
C6_Witness ==
  /\ last.op = "setMediaStreamToDefault"
  /\ lastUsedMicDeviceId = "mic-a"
  /\ calls[last.call].constraints.device.mode = "ideal"

HousekeepingStores == Count(effects, "store.update:lastUsedMicDeviceId")
HousekeepingEmits == Count(effects, "emit:local-media-stream-created")

\* C7 as stated: after its refresh the housekeeping, when a track is active,
\* stores the id found by label lookup as last-used and emits
\* local-media-stream-created once; when no track is active it stores and
\* emits nothing.
C7_AlwaysStores ==
  last.op = "enumerateDevicesResolved" =>
    IF audioTrack # NullTrack
    THEN /\ HousekeepingStores = 1
         /\ lastUsedMicDeviceId = selectedMicDeviceId
         /\ HousekeepingEmits = 1
    ELSE HousekeepingStores = 0 /\ HousekeepingEmits = 0

\* One step of C7 amended: after its refresh the housekeeping, when a track is active,
\* emits local-media-stream-created once and stores the id found by label
\* lookup as last-used only if the lookup found one, leaving the stored id
\* unchanged otherwise; when no track is active it leaves the stored id
\* unchanged and emits nothing.
C7_HousekeepingStep ==
  last'.op = "enumerateDevicesResolved" =>
    IF audioTrack' # NullTrack
    THEN /\ HousekeepingEmits' = 1
         /\ IF selectedMicDeviceId' # Undefined
            THEN /\ lastUsedMicDeviceId' = selectedMicDeviceId'
                 /\ HousekeepingStores' = 1
            ELSE /\ lastUsedMicDeviceId' = lastUsedMicDeviceId
                 /\ HousekeepingStores' = 0
    ELSE /\ lastUsedMicDeviceId' = lastUsedMicDeviceId
         /\ HousekeepingStores' = 0
         /\ HousekeepingEmits' = 0

\* C7 amended, over every step: the housekeeping stores the looked-up id only
\* when the lookup found one and emits once whenever a track is active.
C7_StoresWhenFound == [][C7_HousekeepingStep]_vars

\* C7 witness: a track is active, the refreshed cache has no device with its
\* label, the stored id is still the earlier one and the event was emitted
C7_Witness ==
  /\ last.op = "enumerateDevicesResolved"
  /\ audioTrack # NullTrack
  /\ selectedMicDeviceId = Undefined
  /\ lastUsedMicDeviceId = "mic-b"
  /\ HousekeepingEmits = 1

\* C8: selectedMicDeviceId is the id of the first cached device whose label
\* is the active track's label, and undefined when there is no active track
\* or no cached device has that label.
C8_SelectedIdDerived ==
  LET label == IF audioTrack = NullTrack THEN "" ELSE tracks[audioTrack].label
      matches == {i \in DOMAIN micDevices : micDevices[i].label = label}
  IN IF audioTrack = NullTrack \/ matches = {}
     THEN selectedMicDeviceId = Undefined
     ELSE \E i \in matches : /\ \A j \in matches : i <= j
                             /\ selectedMicDeviceId = micDevices[i].value

\* C8 witness: a device-change refresh removed the active track's device
C8_Witness ==
  /\ last.op = "fetchMicDevicesResolved"
  /\ audioTrack # NullTrack
  /\ tracks[audioTrack].state = "live"
  /\ tracks[audioTrack].label = "Generic Mic"
  /\ micDevices # << >>
  /\ selectedMicDeviceId = Undefined

\* One step of C9: off Firefox Reality, for every state of the three disable flags, the
\* constraints sent have each toggle equal to the negation of its flag, an
\* absent flag counting as not disabled, and the store is left unchanged.
C9_BuildStep ==
  (~isFirefoxReality /\ last'.op \in CallKinds) =>
    LET c == calls'[last'.call].constraints IN
    /\ c.echoCancellation = (preferences.disableEchoCancellation # "true")
    /\ c.noiseSuppression = (preferences.disableNoiseSuppression # "true")
    /\ c.autoGainControl = (preferences.disableAutoGainControl # "true")
    /\ preferences' = preferences

\* C9, over every step that builds constraints off Firefox Reality: each
\* toggle is the negation of its disable flag and the store is unchanged.
C9_BaseRule == [][C9_BuildStep]_vars

\* C9 witness: a request was built from one absent, one true and one false flag
C9_Witness ==
  /\ ~isFirefoxReality
  /\ IssuedCall
  /\ preferences = [disableEchoCancellation |-> "absent",
                    disableNoiseSuppression |-> "true",
                    disableAutoGainControl |-> "false"]
  /\ calls[last.call].constraints.echoCancellation
  /\ ~calls[last.call].constraints.noiseSuppression
  /\ calls[last.call].constraints.autoGainControl

SameToggles(c1, c2) ==
  /\ c1.echoCancellation = c2.echoCancellation
  /\ c1.noiseSuppression = c2.noiseSuppression
  /\ c1.autoGainControl = c2.autoGainControl

\* One step of C10: on Firefox Reality each toggle is enabled only if its disable flag is
\* explicitly false, the store is rewritten so that each flag is the negation
\* of its toggle, and a later build yields the same toggles and the same store.
C10_BuildStep ==
  (isFirefoxReality /\ last'.op \in CallKinds) =>
    LET c == calls'[last'.call].constraints IN
    /\ c.echoCancellation = (preferences.disableEchoCancellation = "false")
    /\ c.noiseSuppression = (preferences.disableNoiseSuppression = "false")
    /\ c.autoGainControl = (preferences.disableAutoGainControl = "false")
    /\ preferences'.disableEchoCancellation = (IF c.echoCancellation THEN "false" ELSE "true")
    /\ preferences'.disableNoiseSuppression = (IF c.noiseSuppression THEN "false" ELSE "true")
    /\ preferences'.disableAutoGainControl = (IF c.autoGainControl THEN "false" ELSE "true")
    /\ issued >= 1 => preferences' = preferences
    /\ \A t \in Tracks : tracks[t].state # "none" => SameToggles(c, tracks[t].constraints)

\* C10, over every step that builds constraints on Firefox Reality: inverted
\* polarity, the store rewritten to the negated toggles, later builds the same.
C10_InvertedAndIdempotent == [][C10_BuildStep]_vars

\* C10 witness: a second build after a granted first one, the store rewritten
C10_Witness ==
  /\ isFirefoxReality
  /\ IssuedCall
  /\ issued = 2
  /\ tracks[1].state # "none"
  /\ preferences = [disableEchoCancellation |-> "true",
                    disableNoiseSuppression |-> "false",
                    disableAutoGainControl |-> "true"]

\* the labels of the cached devices
CachedLabels == {micDevices[i].label : i \in DOMAIN micDevices}

\* C11: the HMD advisory never throws and never changes state; it returns
\* false on a handheld or mobile-VR device and when no cached label matches
\* a headset pattern, and it returns true only when the selected device's
\* label matches none of the patterns.
C11_HmdAdvisory ==
  last.op = "shouldShowHmdMicWarning" =>
    /\ last.returned \in {"true", "false"}
    /\ effects = << >>
    /\ (isMobile \/ isMobileVR) => last.returned = "false"
    /\ (\A l \in CachedLabels : ~MatchesHmdMic(l)) => last.returned = "false"
    /\ last.returned = "true" => ~MatchesHmdMic(selectedMicLabel)

\* no track ended through an external cause, so no recovery listener ran
NoTrackEnded == \A t \in Tracks : tracks[t].state # "ended"

\* C12: under overlapping calls the fetches behave as if serialized: the
\* manager never holds two live granted tracks, and every granted track
\* that is not activeTrack (audioTrack) has been stopped.
C12_OverlapSerialized ==
  NoTrackEnded =>
    /\ Cardinality(LiveTracks) <= 1
    /\ \A t \in Tracks : tracks[t].state = "live" => t = audioTrack

\* C13: when the provider rejects the re-request of the recovery listener,
\* the failure is handled inside the component: no rejection escapes the
\* listener uncaught.
C13_RecoveryFailureHandled ==
  last.op = "recreateAudioStreamRejected" => last.returned # "unhandled"

\* activeTrack (audioTrack) is a track that ended through an external cause
ActiveTrackEnded == audioTrack # NullTrack /\ tracks[audioTrack].state = "ended"

\* C14: on Oculus Browser, with a provider that answers every request,
\* whenever the active track has ended externally the manager eventually
\* holds a live track or none; it never stays with the ended track forever.
C14_EndedTrackReplaced ==
  (isOculus /\ ActiveTrackEnded)
    ~> (audioTrack = NullTrack \/ tracks[audioTrack].state = "live")

\* the steps of the device-change flow
DeviceChangeOps == {"onDeviceChange", "fetchMicDevicesResolved", "fetchMicDevicesRejected"}

\* the ids of the audio-input devices in device set S
AudioInputIds(S) ==
  {AllDevices[d].deviceId : d \in {e \in S : AllDevices[e].kind = "audioinput"}}

C15_DeviceChangeStep ==
  last'.op \in DeviceChangeOps =>
    /\ audioTrack' = audioTrack
    /\ mediaStream' = mediaStream
    /\ lastUsedMicDeviceId' = lastUsedMicDeviceId
    /\ tracks' = tracks
    /\ microphone' = microphone
    /\ Count(effects', "getUserMedia") = 0
    /\ Count(effects', "audioTrack.stop") = 0
    /\ last'.op = "fetchMicDevicesResolved" =>
         /\ {micDevices'[i].value : i \in DOMAIN micDevices'} = AudioInputIds(present)
         /\ Len(micDevices') = Cardinality(AudioInputIds(present))
         /\ Count(effects', "emit:devicechange") = 1
         /\ ComesBefore(effects', "micDevices", "emit:devicechange")
    /\ last'.op # "fetchMicDevicesResolved" =>
         /\ micDevices' = micDevices
         /\ Count(effects', "emit:devicechange") = 0

\* C15: a device-change notification replaces the cached list by the
\* audio-input devices of the provider's current snapshot and then emits
\* one devicechange; it leaves activeTrack, outboundStream and the stored
\* last-used id alone, stops no track and sends no capture request, also
\* while a fetch is in flight.
C15_DeviceChangeFrame == [][C15_DeviceChangeStep]_vars

\* a device change was served while a call awaits getUserMedia and a track is active
C15_Witness ==
  /\ last.op = "fetchMicDevicesResolved"
  /\ \E p \in Calls : calls[p].pc = "getUserMedia"
  /\ audioTrack # NullTrack
  /\ Len(micDevices) = 2
  /\ Count(effects, "emit:devicechange") = 1

\* the continuation of a selectMicDevice or setMediaStreamToDefault call
\* after its getUserMedia was granted: the stream of the call's track is
\* attached, then the refresh is requested; nothing is stored or emitted yet
AttachedBeforeRefresh ==
  (last.op = "getUserMediaResolved" /\ last.kind # "fetchAudioTrack") =>
    /\ microphone = last.track
    /\ ComesBefore(effects, "addStreamToOutboundAudio:microphone", "enumerateDevices")
    /\ Count(effects, "micDevices") = 0
    /\ HousekeepingStores = 0
    /\ HousekeepingEmits = 0

\* the housekeeping of a call whose fetch succeeded
SuccessfulHousekeeping == last.op = "enumerateDevicesResolved" /\ last.result

\* C16 as stated: within one successful call the stream is attached, then
\* the directory is refreshed, then the id is persisted, then the event is
\* emitted; the event is never emitted before the refresh and the persist
\* have happened.
C16_PersistThenEmit ==
  /\ AttachedBeforeRefresh
  /\ (SuccessfulHousekeeping /\ HousekeepingEmits > 0) =>
       /\ ComesBefore(effects, "micDevices", "store.update:lastUsedMicDeviceId")
       /\ ComesBefore(effects, "store.update:lastUsedMicDeviceId",
                      "emit:local-media-stream-created")

\* C16 amended: within one successful call the stream is attached, then the
\* directory is refreshed, then the id is persisted if the label lookup
\* found one, then the event is emitted; the event is never emitted before
\* the refresh, nor before the persist when there is one.
C16_OrderOfSteps ==
  /\ AttachedBeforeRefresh
  /\ SuccessfulHousekeeping =>
       /\ effects[1] = "micDevices"
       /\ HousekeepingEmits <= 1
       /\ HousekeepingStores <= HousekeepingEmits
       /\ HousekeepingEmits = 1 =>
            effects[Len(effects)] = "emit:local-media-stream-created"
       /\ HousekeepingStores = 1 =>
            /\ ComesBefore(effects, "micDevices", "store.update:lastUsedMicDeviceId")
            /\ ComesBefore(effects, "store.update:lastUsedMicDeviceId",
                           "emit:local-media-stream-created")

\* a successful selectMicDevice finished with refresh, persist and event
C16_Witness ==
  /\ SuccessfulHousekeeping
  /\ last.kind = "selectMicDevice"
  /\ effects = << "micDevices", "store.update:lastUsedMicDeviceId",
                  "emit:local-media-stream-created" >>
  /\ microphone = audioTrack

\* C17: when enumerateDevices fails during a refresh, the cached list is
\* not replaced and the failure reaches the awaiting flow as a rejection:
\* the call or device-change flow terminates with an error, it does not
\* stay pending forever.
C17_EnumerationFailureSurfaces ==
  /\ last.op \in {"enumerateDevicesRejected", "fetchMicDevicesRejected"} =>
       /\ Count(effects, "micDevices") = 0
       /\ last.returned = "threw"
  /\ \A p \in Calls : calls[p].pc # "hung"

\* the tracks obtained with the constraints object of the latest call
TracksOfLatestCall ==
  {t \in Tracks : tracks[t].state # "none" /\ tracks[t].constraints.ref = issued}

\* the latest call was a selectMicDevice, it was granted and it is over
LatestSelectionDone ==
  /\ NoCallInFlight
  /\ \E t \in TracksOfLatestCall : tracks[t].constraints.device.mode = "exact"

\* C18: on Oculus Browser, with a recovery in flight while selectMicDevice
\* is called: once that call has completed successfully and no later call
\* is issued, activeTrack is a track obtained with that call's constraints,
\* and no other granted track is live.
C18_SelectionKept ==
  (isOculus /\ LatestSelectionDone) =>
    /\ audioTrack \in TracksOfLatestCall
    /\ \A t \in Tracks : tracks[t].state = "live" => t = audioTrack

\* C19: whenever activeTrack (audioTrack) is non-empty, the stream attached
\* last under channel "microphone" is the stream audioTrack was taken from;
\* after first fetches, recovery replacements and overlapping fetches.
C19_MicrophoneIsActiveTrack == audioTrack # NullTrack => microphone = audioTrack

\* a recovery replaced the active track while a call awaits getUserMedia
C19_Witness ==
  /\ last.op = "recreateAudioStreamResolved"
  /\ audioTrack > 1
  /\ microphone = audioTrack
  /\ \E p \in Calls : calls[p].pc = "getUserMedia"

\* one step with respect to the stored last-used id
C20_WriteStep ==
  /\ HousekeepingStores' = 0 => lastUsedMicDeviceId' = lastUsedMicDeviceId
  /\ HousekeepingStores' > 0 =>
       /\ Truthy(lastUsedMicDeviceId')
       /\ audioTrack' # NullTrack
       /\ \E i \in DOMAIN micDevices' :
            /\ micDevices'[i].value = lastUsedMicDeviceId'
            /\ micDevices'[i].label = tracks'[audioTrack'].label
  /\ (/\ last'.op = "enumerateDevicesResolved"
      /\ audioTrack' # NullTrack
      /\ \A i \in DOMAIN micDevices' : micDevices'[i].label # tracks'[audioTrack'].label) =>
       /\ HousekeepingStores' = 0
       /\ HousekeepingEmits' = 1

\* C20: the stored last-used id is never overwritten with an empty or
\* undefined value: every write stores an id that is in the cached list at
\* the write and whose label is the active track's label; when the lookup
\* finds no match the stored id stays and the event is still emitted.
C20_LastUsedIdValid == [][C20_WriteStep]_vars

\* a call replaced the stored id "mic-b" by the id found for the active track
C20_Witness ==
  /\ last.op = "enumerateDevicesResolved"
  /\ HousekeepingStores = 1
  /\ lastUsedMicDeviceId = "mic-a"
  /\ selectedMicLabel = "Generic Mic"
  /\ last.kind = "setMediaStreamToDefault"

====
